---- MODULE Spec2Model ----
(***************************************************************************)
(* cinolib, include/cinolib/smoother.cpp: the feature-preserving mesh      *)
(* smoother.  mesh_smoother labels the vertices once from the marked       *)
(* edges, then runs n_iters iterations of: assemble one sparse system      *)
(* (Laplacian block + one block of rows per vertex), solve it in the       *)
(* weighted-least-squares sense, write the new vertex positions.           *)
(*                                                                         *)
(* Coordinates, weights and coefficients (double in the code) are integers *)
(* here; a vec3d is a tuple <<x, y, z>>.  The mesh, the octree, the        *)
(* Laplacian and the solver are collaborators whose code is outside        *)
(* smoother.cpp; they are modelled by their contracts.                     *)
(***************************************************************************)
EXTENDS Integers, Sequences, FiniteSets, TLC

\* ------------------------------------------------------------------ bounds
\* number of vertices of the smoothed mesh (a triangle fan around vertex 0)
NV == 4
\* largest opt.n_iters explored
MaxIters == 2
\* number of distinct solution vectors the solver may return for one system
NSeeds == 2

VARIABLES
    marked,        \* m.edge_data(eid).marked
    pos,           \* m.vert(vid)
    label,         \* m.vert_data(vid).label
    opt,           \* SmootherOptions
    ref_srf,       \* Octree on the target surface
    ref_feat,      \* Octree on the marked edges
    pc,            \* position in mesh_smoother
    i,             \* iteration counter of the outer loop
    vid,           \* vertex counter of the assembly / update loop
    row,           \* shared row counter
    w,             \* weights, one per row
    rhs,           \* right hand side, one per row
    entries,       \* triplets of the coefficient matrix
    feature_data,  \* vid => (dir, col_t)
    A,             \* dimensions of the matrix handed to the solver
    res,           \* solution vector
    hist           \* history of the call: the initial positions and labels, the
                   \* labels written by the classification, the positions at the
                   \* start of the current iteration and at the end of the last
                   \* completed one, the block of rows of each assembled vertex,
                   \* how many times each phase ran, the octree queries made,
                   \* whether a solve failed

vars == <<marked, pos, label, opt, ref_srf, ref_feat, pc, i, vid, row, w, rhs,
          entries, feature_data, A, res, hist>>

\* ------------------------------------------------------------------ vec3d
vec_add(a, b) == <<a[1] + b[1], a[2] + b[2], a[3] + b[3]>>
vec_sub(a, b) == <<a[1] - b[1], a[2] - b[2], a[3] - b[3]>>
vec_mul(a, k) == <<a[1] * k, a[2] * k, a[3] * k>>
dot(a, b) == a[1] * b[1] + a[2] * b[2] + a[3] * b[3]
length_squared(a) == dot(a, a)

\* integer square root (floor) and division truncating toward zero
ISqrt(n) == CHOOSE k \in 0..n : k * k <= n /\ n < (k + 1) * (k + 1)
Quot(a, b) == IF a >= 0 THEN a \div b ELSE -((-a) \div b)

\* v / |v| on the integer lattice; the zero vector stays the zero vector
normalize(v) ==
    IF length_squared(v) = 0 THEN v
    ELSE LET len == ISqrt(length_squared(v))
         IN  <<Quot(v[1], len), Quot(v[2], len), Quot(v[3], len)>>

\* ------------------------------------------------------------------ sequences
RECURSIVE SortedSeq(_)
SortedSeq(S) ==
    IF S = {} THEN <<>>
    ELSE LET lo == CHOOSE x \in S : \A y \in S : x <= y
         IN  <<lo>> \o SortedSeq(S \ {lo})

Range(s) == {s[k] : k \in DOMAIN s}

RECURSIVE Flatten(_)
Flatten(ss) == IF ss = <<>> THEN <<>> ELSE Head(ss) \o Flatten(Tail(ss))

\* ------------------------------------------------------------------ the mesh
\* A triangle fan: vertex 0 is the hub, 1..NV-1 the rim.  Edges 0..NV-2 are
\* the spokes (0, eid+1), the others the rim edges (k, k+1); polygon pid is
\* the triangle (0, pid+1, pid+2).
num_verts == NV
num_edges == 2 * NV - 3
num_polys == NV - 2
Verts == 0..(num_verts - 1)
EdgeIds == 0..(num_edges - 1)
PolyIds == 0..(num_polys - 1)

edge_vert_ids(eid) ==
    IF eid < NV - 1 THEN <<0, eid + 1>>
    ELSE <<eid - (NV - 1) + 1, eid - (NV - 1) + 2>>

poly_vert_ids(pid) == <<0, pid + 1, pid + 2>>

adj_v2e(v) == SortedSeq({e \in EdgeIds : v \in Range(edge_vert_ids(e))})
adj_v2p(v) == SortedSeq({p \in PolyIds : v \in Range(poly_vert_ids(p))})

vert_opposite_to(eid, v) ==
    IF edge_vert_ids(eid)[1] = v THEN edge_vert_ids(eid)[2] ELSE edge_vert_ids(eid)[1]

adj_v2v(v) == [k \in 1..Len(adj_v2e(v)) |-> vert_opposite_to(adj_v2e(v)[k], v)]

\* positions of the two endpoints of an edge
edge_verts(p, eid) == <<p[edge_vert_ids(eid)[1]], p[edge_vert_ids(eid)[2]]>>

\* the precomputed face normals (one of them degenerate)
poly_normal(pid) ==
    CASE pid % 3 = 0 -> <<0, 0, 1>>
      [] pid % 3 = 1 -> <<0, 0, 0>>
      [] OTHER       -> <<0, 1, 0>>

\* the input geometry of the smoothed mesh
InitPos(v) == <<v, (v * v) % 3, v % 2>>

\* the target mesh: its polygons, as tuples of vertex positions
TargetPolys ==
    << << <<0, 0, 0>>, <<2, 0, 0>>, <<0, 2, 0>> >>,
       << <<2, 0, 0>>, <<0, 2, 0>>, <<2, 2, 1>> >> >>

\* vertex labels
REGULAR == "REGULAR"
FEATURE == "FEATURE"
CORNER == "CORNER"
\* a label value outside the enumeration (a vertex never labelled)
UNSET == "UNSET"

\* ------------------------------------------------------------------ octree
\* An index holds the items added to it; closest_point answers with the
\* nearest point of its items, sampled at the items' vertices.
EmptyOctree == [items |-> {}]

add_segment(o, id, pts) == [items |-> o.items \cup {[id |-> id, pts |-> pts]}]

build_from_mesh_polys(polys) ==
    [items |-> {[id |-> k - 1, pts |-> polys[k]] : k \in DOMAIN polys}]

LexLeq(a, b) ==
    \/ a[1] < b[1]
    \/ a[1] = b[1] /\ a[2] < b[2]
    \/ a[1] = b[1] /\ a[2] = b[2] /\ a[3] <= b[3]

closest_point(o, p) ==
    LET cand == UNION {Range(it.pts) : it \in o.items}
        d(c) == length_squared(vec_sub(c, p))
    IN  IF cand = {} THEN p
        ELSE CHOOSE c \in cand :
                \A e \in cand : d(c) < d(e) \/ (d(c) = d(e) /\ LexLeq(c, e))

\* ------------------------------------------------------------------ laplacian
Entry(r, c, v) == [row |-> r, col |-> c, val |-> v]

\* uniform Laplacian, replicated on the x, y and z blocks: row k*nv + v has one
\* entry per neighbour of v and the diagonal (the cotangent mode has the same
\* rows and columns, with other coefficients)
LaplacianRow(k, v) ==
    [j \in 1..Len(adj_v2v(v)) |->
        Entry(k * num_verts + v, k * num_verts + adj_v2v(v)[j], 1)]
    \o <<Entry(k * num_verts + v, k * num_verts + v, -Len(adj_v2v(v)))>>

laplacian_matrix_entries ==
    Flatten([n \in 1..(3 * num_verts) |->
                LaplacianRow((n - 1) \div num_verts, (n - 1) % num_verts)])

\* ------------------------------------------------------------------ solver
\* value of entry c of the s-th candidate solution
SolVal(s, c) == (((s + 1) * (c + 2)) % 3) - 1

\* outcomes of one weighted-least-squares solve of a system with ncols
\* unknowns: a solution vector, or failure
solve_weighted_least_squares(ncols) ==
    {[ok |-> TRUE, x |-> [c \in 0..(ncols - 1) |-> SolVal(s, c)]] : s \in 0..(NSeeds - 1)}
    \cup {[ok |-> FALSE, x |-> [c \in {} |-> 0]]}

\* ------------------------------------------------------------------ assembly
\* The system under assembly: the shared row counter, the weights, the
\* triplets and the right hand side.
EmptySys == [row |-> 0, w |-> <<>>, entries |-> <<>>, rhs |-> <<>>]

EmptyMap == [x \in {} |-> 0]

laplacian_term(weight, sys) ==
    LET extra_rows == num_verts * 3
    IN  [row     |-> sys.row + extra_rows,
         w       |-> sys.w \o [k \in 1..extra_rows |-> weight],
         entries |-> sys.entries \o laplacian_matrix_entries,
         rhs     |-> sys.rhs \o [k \in 1..extra_rows |-> 0]]

\* one equation for each incident face: n . p_new = n . p
RECURSIVE tangent_space_rows(_, _, _, _, _)
tangent_space_rows(pids, p, v, weight, sys) ==
    IF pids = <<>> THEN sys
    ELSE LET nv == num_verts
             n  == poly_normal(Head(pids))
         IN  tangent_space_rows(Tail(pids), p, v, weight,
                [row     |-> sys.row + 1,
                 w       |-> Append(sys.w, weight),
                 entries |-> sys.entries \o <<Entry(sys.row, v, n[1]),
                                              Entry(sys.row, nv + v, n[2]),
                                              Entry(sys.row, nv + nv + v, n[3])>>,
                 rhs     |-> Append(sys.rhs, dot(n, p[v]))])

smooth_on_tangent_space(p, v, weight, sys) ==
    tangent_space_rows(adj_v2p(v), p, v, weight, sys)

\* positions of the vertices opposite to v along its marked edges
RECURSIVE marked_nbrs(_, _, _, _)
marked_nbrs(eids, p, mk, v) ==
    IF eids = <<>> THEN <<>>
    ELSE (IF mk[Head(eids)] THEN <<p[vert_opposite_to(Head(eids), v)]>> ELSE <<>>)
         \o marked_nbrs(Tail(eids), p, mk, v)

\* variant: the t columns start after two coordinate blocks instead of three
col_t_of_two_blocks(nv, fd) == nv + nv + Cardinality(DOMAIN fd)

\* column of the parameter t of the next feature vertex
col_t_of(nv, fd) == nv + nv + nv + Cardinality(DOMAIN fd)

\* variant: the row t = 0 weighted like the other rows of the vertex
t_row_weight_feature(weight) == weight

\* weight of the row t = 0 of a feature vertex
t_row_weight(weight) == 1

\* rows of a feature vertex: p_new - t*dir = p (x, y, z), and t = 0
tangent_line_rows(p, v, weight, sys, dir, col_t) ==
    LET nv == num_verts
        r  == sys.row
    IN  [row     |-> r + 4,
         w       |-> sys.w \o <<weight, weight, weight, t_row_weight(weight)>>,
         entries |-> sys.entries \o
                     <<Entry(r, v, 1),               Entry(r, col_t, -dir[1]),
                       Entry(r + 1, nv + v, 1),      Entry(r + 1, col_t, -dir[2]),
                       Entry(r + 2, nv + nv + v, 1), Entry(r + 2, col_t, -dir[3]),
                       Entry(r + 3, col_t, 1)>>,
         rhs     |-> sys.rhs \o <<p[v][1], p[v][2], p[v][3], 0>>]

\* ok is FALSE when one of the two assertions fails
smooth_on_tangent_line(p, mk, v, weight, sys, fd) ==
    LET nbrs  == marked_nbrs(adj_v2e(v), p, mk, v)
    IN  IF Len(nbrs) # 2 \/ v \in DOMAIN fd
        THEN [ok |-> FALSE, sys |-> sys, fd |-> fd]
        ELSE LET dir   == normalize(vec_sub(nbrs[1], nbrs[Len(nbrs)]))
                 col_t == col_t_of(num_verts, fd)
             IN  [ok  |-> TRUE,
                  sys |-> tangent_line_rows(p, v, weight, sys, dir, col_t),
                  fd  |-> (v :> [dir |-> dir, col |-> col_t]) @@ fd]

\* variant: the row counter is not advanced after the z row
hold_corner_two_rows(p, v, weight, sys) ==
    LET nv == num_verts
        r  == sys.row
    IN  [row     |-> r + 2,
         w       |-> sys.w \o <<weight, weight, weight>>,
         entries |-> sys.entries \o <<Entry(r, v, 1),
                                      Entry(r + 1, nv + v, 1),
                                      Entry(r + 2, nv + nv + v, 1)>>,
         rhs     |-> sys.rhs \o <<p[v][1], p[v][2], p[v][3]>>]

hold_corner(p, v, weight, sys) ==
    LET nv == num_verts
        r  == sys.row
    IN  [row     |-> r + 3,
         w       |-> sys.w \o <<weight, weight, weight>>,
         entries |-> sys.entries \o <<Entry(r, v, 1),
                                      Entry(r + 1, nv + v, 1),
                                      Entry(r + 2, nv + nv + v, 1)>>,
         rhs     |-> sys.rhs \o <<p[v][1], p[v][2], p[v][3]>>]

\* ------------------------------------------------------------------ labels
marked_count(mk, v) == Len(SelectSeq(adj_v2e(v), LAMBDA e : mk[e]))

\* variant: two or more marked edges make a feature vertex
label_features_two_or_more(mk, lab) ==
    [v \in Verts |->
        CASE marked_count(mk, v) = 0 -> REGULAR
          [] marked_count(mk, v) >= 2 -> FEATURE
          [] OTHER                    -> CORNER]

\* variant: the default case leaves the label as it was
label_features_no_default(mk, lab) ==
    [v \in Verts |->
        CASE marked_count(mk, v) = 0 -> REGULAR
          [] marked_count(mk, v) = 2 -> FEATURE
          [] OTHER                   -> lab[v]]

label_features(mk, lab) ==
    [v \in Verts |->
        CASE marked_count(mk, v) = 0 -> REGULAR
          [] marked_count(mk, v) = 2 -> FEATURE
          [] OTHER                   -> CORNER]

\* ------------------------------------------------------------------ update
regular_point(r, nv, v) == <<r[v], r[nv + v], r[2 * nv + v]>>

\* variant: a feature vertex read from its x, y, z columns
feature_point_xyz(p, fd, r, v) == <<r[v], r[num_verts + v], r[2 * num_verts + v]>>

feature_point(p, fd, r, v) == vec_add(p[v], vec_mul(fd[v].dir, r[fd[v].col]))

\* variants: one iteration too many, one too few
loop_cond_inclusive(k, n_iters) == k <= n_iters
loop_cond_short(k, n_iters) == k + 1 < n_iters

\* condition of the iteration loop
loop_cond(k, n_iters) == k < n_iters

\* ------------------------------------------------------------------ inputs
\* the weights of the four energy terms
WeightChoices ==
    {[w_laplace |-> 2, w_regular |-> 3, w_feature |-> 5, w_corner |-> 7],
     [w_laplace |-> 0, w_regular |-> 1, w_feature |-> 1, w_corner |-> 1]}

Options ==
    {[n_iters |-> n, reproject_on_target |-> r,
      w_laplace |-> ws.w_laplace, w_regular |-> ws.w_regular,
      w_feature |-> ws.w_feature, w_corner |-> ws.w_corner] :
        n \in 0..MaxIters, r \in BOOLEAN, ws \in WeightChoices}

\* labels the vertices may carry when mesh_smoother is called
PriorLabels == {[v \in Verts |-> l] : l \in {UNSET, FEATURE}}

Init ==
    /\ marked \in [EdgeIds -> BOOLEAN]
    /\ pos = [v \in Verts |-> InitPos(v)]
    /\ label \in PriorLabels
    /\ opt \in Options
    /\ ref_srf = EmptyOctree
    /\ ref_feat = EmptyOctree
    /\ pc = "start"
    /\ i = 0
    /\ vid = 0
    /\ row = 0
    /\ w = <<>>
    /\ rhs = <<>>
    /\ entries = <<>>
    /\ feature_data = EmptyMap
    /\ A = [rows |-> 0, cols |-> 0]
    /\ res = EmptyMap
    /\ hist = [pos0 |-> pos, p_old |-> pos, p_done |-> pos,
               label0 |-> label, label1 |-> label, blocks |-> <<>>,
               n_build |-> 0, n_label |-> 0, n_assemble |-> 0, n_solve |-> 0,
               n_update |-> 0, q_srf |-> 0, q_feat |-> 0, solver_failed |-> FALSE]

\* ------------------------------------------------------------------ mesh_smoother
\* the feature octree: one segment per marked edge, at the current positions
RECURSIVE add_marked_segments(_, _, _, _)
add_marked_segments(o, p, mk, eid) ==
    IF eid >= num_edges THEN o
    ELSE add_marked_segments(
            IF mk[eid] THEN add_segment(o, eid, edge_verts(p, eid)) ELSE o,
            p, mk, eid + 1)

\* if reprojection is needed, make octrees
BuildOctrees ==
    /\ pc = "start"
    /\ IF opt.reproject_on_target
       THEN /\ ref_srf' = build_from_mesh_polys(TargetPolys)
            /\ ref_feat' = add_marked_segments(ref_feat, pos, marked, 0)
            /\ hist' = [hist EXCEPT !.n_build = @ + 1]
       ELSE UNCHANGED <<ref_srf, ref_feat, hist>>
    /\ pc' = "label"
    /\ UNCHANGED <<marked, pos, label, opt, i, vid, row, w, rhs, entries,
                   feature_data, A, res>>

LabelFeatures ==
    /\ pc = "label"
    /\ label' = label_features(marked, label)
    /\ hist' = [hist EXCEPT !.n_label = @ + 1, !.label1 = label']
    /\ i' = 0
    /\ pc' = "loop"
    /\ UNCHANGED <<marked, pos, opt, ref_srf, ref_feat, vid, row, w, rhs, entries,
                   feature_data, A, res>>

\* head of the iteration loop: a new iteration starts with an empty system
LoopHead ==
    /\ pc = "loop"
    /\ IF loop_cond(i, opt.n_iters)
       THEN /\ entries' = EmptySys.entries
            /\ w' = EmptySys.w
            /\ rhs' = EmptySys.rhs
            /\ row' = EmptySys.row
            /\ hist' = [hist EXCEPT !.p_old = pos, !.blocks = <<>>]
            /\ pc' = "laplacian"
       ELSE /\ pc' = "done"
            /\ UNCHANGED <<entries, w, rhs, row, hist>>
    /\ UNCHANGED <<marked, pos, label, opt, ref_srf, ref_feat, i, vid,
                   feature_data, A, res>>

LaplacianTerm ==
    /\ pc = "laplacian"
    /\ LET sys == laplacian_term(opt.w_laplace,
                     [row |-> row, w |-> w, entries |-> entries, rhs |-> rhs])
       IN  /\ row' = sys.row
           /\ w' = sys.w
           /\ entries' = sys.entries
           /\ rhs' = sys.rhs
    /\ feature_data' = EmptyMap
    /\ vid' = 0
    /\ pc' = "assemble"
    /\ UNCHANGED <<marked, pos, label, opt, ref_srf, ref_feat, i, A, res, hist>>

\* the rows of vertex v: [ok, sys, fd]
assemble_vert(p, mk, lab, o, v, sys, fd) ==
    CASE lab[v] = REGULAR ->
            [ok |-> TRUE, sys |-> smooth_on_tangent_space(p, v, o.w_regular, sys), fd |-> fd]
      [] lab[v] = FEATURE ->
            smooth_on_tangent_line(p, mk, v, o.w_feature, sys, fd)
      [] lab[v] = CORNER ->
            [ok |-> TRUE, sys |-> hold_corner(p, v, o.w_corner, sys), fd |-> fd]
      [] OTHER ->
            [ok |-> FALSE, sys |-> sys, fd |-> fd]

\* one pass of the assembly loop; a failed assertion ends the call
AssembleVert ==
    /\ pc = "assemble"
    /\ LET out == assemble_vert(pos, marked, label, opt, vid,
                     [row |-> row, w |-> w, entries |-> entries, rhs |-> rhs],
                     feature_data)
           last == (vid + 1 = num_verts)
       IN  IF out.ok
           THEN /\ row' = out.sys.row
                /\ w' = out.sys.w
                /\ entries' = out.sys.entries
                /\ rhs' = out.sys.rhs
                /\ feature_data' = out.fd
                /\ hist' = [hist EXCEPT
                              !.blocks = Append(@, [vid |-> vid, lo |-> row, hi |-> out.sys.row]),
                              !.n_assemble = IF last THEN @ + 1 ELSE @]
                /\ vid' = vid + 1
                /\ pc' = IF last THEN "solve" ELSE "assemble"
           ELSE /\ pc' = "assert_failed"
                /\ UNCHANGED <<row, w, entries, rhs, feature_data, hist, vid>>
    /\ UNCHANGED <<marked, pos, label, opt, ref_srf, ref_feat, i, A, res>>

\* variant: the outcome of the solve is not looked at; after a failed solve the
\* solution vector holds zeros
Solve_unchecked ==
    /\ pc = "solve"
    /\ A' = [rows |-> row, cols |-> num_verts * 3 + Cardinality(DOMAIN feature_data)]
    /\ \E out \in solve_weighted_least_squares(A'.cols) :
          /\ res' = IF out.ok THEN out.x ELSE [c \in 0..(A'.cols - 1) |-> 0]
          /\ hist' = [hist EXCEPT !.n_solve = @ + 1,
                                  !.solver_failed = @ \/ ~out.ok]
          /\ vid' = 0
          /\ pc' = "update"
    /\ UNCHANGED <<marked, pos, label, opt, ref_srf, ref_feat, i, row, w, rhs,
                   entries, feature_data>>

\* the matrix is row x (3 nv + number of feature vertices); a failed solve
\* ends the call
Solve ==
    /\ pc = "solve"
    /\ A' = [rows |-> row, cols |-> num_verts * 3 + Cardinality(DOMAIN feature_data)]
    /\ \E out \in solve_weighted_least_squares(A'.cols) :
          IF out.ok
          THEN /\ res' = out.x
               /\ hist' = [hist EXCEPT !.n_solve = @ + 1]
               /\ vid' = 0
               /\ pc' = "update"
          ELSE /\ hist' = [hist EXCEPT !.solver_failed = TRUE]
               /\ pc' = "aborted"
               /\ UNCHANGED <<res, vid>>
    /\ UNCHANGED <<marked, pos, label, opt, ref_srf, ref_feat, i, row, w, rhs,
                   entries, feature_data>>

\* variant: every vertex is reprojected on the target surface
octree_of_surface(lab, srf, feat) == srf

\* the octree a vertex of label lab is reprojected on
octree_of(lab, srf, feat) == IF lab = FEATURE THEN feat ELSE srf

\* the new position of vertex v, before reprojection
raw_point(p, lab, fd, r, v) ==
    IF lab[v] = FEATURE THEN feature_point(p, fd, r, v)
    ELSE regular_point(r, num_verts, v)

\* one pass of the update loop; an unknown label, or a feature vertex with no
\* feature data, ends the call
UpdateVert ==
    /\ pc = "update"
    /\ LET last == (vid + 1 = num_verts)
       IN  IF label[vid] \in {REGULAR, CORNER}
              \/ (label[vid] = FEATURE /\ vid \in DOMAIN feature_data)
           THEN LET p == raw_point(pos, label, feature_data, res, vid)
                IN  /\ pos' = [pos EXCEPT ![vid] =
                                 IF opt.reproject_on_target
                                 THEN closest_point(octree_of(label[vid], ref_srf, ref_feat), p)
                                 ELSE p]
                    /\ hist' = [hist EXCEPT
                          !.q_srf = IF opt.reproject_on_target /\ label[vid] # FEATURE
                                    THEN @ + 1 ELSE @,
                          !.q_feat = IF opt.reproject_on_target /\ label[vid] = FEATURE
                                     THEN @ + 1 ELSE @,
                          !.n_update = IF last THEN @ + 1 ELSE @,
                          !.p_done = IF last THEN pos' ELSE @]
                    /\ vid' = vid + 1
                    /\ i' = IF last THEN i + 1 ELSE i
                    /\ pc' = IF last THEN "loop" ELSE "update"
           ELSE /\ pc' = "assert_failed"
                /\ UNCHANGED <<pos, hist, vid, i>>
    /\ UNCHANGED <<marked, label, opt, ref_srf, ref_feat, row, w, rhs, entries,
                   feature_data, A, res>>

Next ==
    \/ BuildOctrees
    \/ LabelFeatures
    \/ LoopHead
    \/ LaplacianTerm
    \/ AssembleVert
    \/ Solve
    \/ UpdateVert

Spec == Init /\ [][Next]_vars

\* ------------------------------------------------------------------ properties
\* helpers of the properties, computed from the mesh and not from the code
MarkedIncident(v) == {e \in EdgeIds : marked[e] /\ v \in Range(edge_vert_ids(e))}
IncidentPolys(v) == {p \in PolyIds : v \in Range(poly_vert_ids(p))}
Labelled(l) == {v \in Verts : label[v] = l}

\* number of (REGULAR vertex, incident polygon) pairs
RegularPolyPairs ==
    Cardinality({vp \in Verts \X PolyIds :
                    label[vp[1]] = REGULAR /\ vp[2] \in IncidentPolys(vp[1])})

Classified == pc \notin {"start", "label"}

\* C1: after label_features, a vertex is REGULAR iff it has no marked incident
\* edge, FEATURE iff it has exactly two, CORNER for every other count; every
\* vertex carries one of the three labels whatever label it carried before.
C1_LabelFromMarkedCount ==
    Classified =>
        \A v \in Verts :
            LET c == Cardinality(MarkedIncident(v))
            IN  /\ label[v] \in {REGULAR, FEATURE, CORNER}
                /\ (label[v] = REGULAR) <=> (c = 0)
                /\ (label[v] = FEATURE) <=> (c = 2)
                /\ (label[v] = CORNER) <=> (c \notin {0, 2})

\* vertices with one, two and three marked edges have been labelled, and their
\* former label was another one
C1_Witness ==
    /\ pc = "loop"
    /\ i = 0
    /\ \E a, b, c \in Verts :
          /\ Cardinality(MarkedIncident(a)) = 1
          /\ Cardinality(MarkedIncident(b)) = 2
          /\ Cardinality(MarkedIncident(c)) >= 3
          /\ hist.label0[a] = FEATURE /\ label[a] = CORNER
          /\ hist.label0[c] = FEATURE /\ label[c] = CORNER

\* C2: with n_iters = 0 every vertex position stays the input position, with
\* or without reprojection.
C2_ZeroItersKeepPositions ==
    opt.n_iters = 0 => pos = hist.pos0

\* a call with n_iters = 0 and reprojection has built the octrees, written
\* labels and returned
C2_Witness ==
    /\ pc = "done"
    /\ opt.n_iters = 0
    /\ opt.reproject_on_target
    /\ hist.n_build = 1
    /\ ref_feat # EmptyOctree
    /\ label # hist.label0

PhaseCounts ==
    /\ hist.n_label = (IF Classified THEN 1 ELSE 0)
    /\ Classified => label = hist.label1
    /\ i <= opt.n_iters
    /\ pc \in {"start", "label"} =>
          hist.n_assemble = 0 /\ hist.n_solve = 0 /\ hist.n_update = 0 /\ i = 0
    /\ pc = "loop" =>
          hist.n_assemble = i /\ hist.n_solve = i /\ hist.n_update = i
    /\ pc \in {"laplacian", "assemble"} =>
          /\ i < opt.n_iters
          /\ hist.n_assemble = i /\ hist.n_solve = i /\ hist.n_update = i
          /\ pos = hist.p_done
    /\ pc = "solve" =>
          /\ i < opt.n_iters
          /\ hist.n_assemble = i + 1 /\ hist.n_solve = i /\ hist.n_update = i
          /\ pos = hist.p_done
    /\ pc = "update" =>
          /\ i < opt.n_iters
          /\ hist.n_assemble = i + 1 /\ hist.n_solve = i + 1 /\ hist.n_update = i
    /\ pc = "done" =>
          /\ i = opt.n_iters
          /\ hist.n_assemble = i /\ hist.n_solve = i /\ hist.n_update = i
          /\ pos = hist.p_done
    /\ pc = "aborted" => hist.solver_failed
    /\ pc \in {"start", "label", "loop", "laplacian", "assemble", "solve", "update",
               "done", "aborted"}

Terminated == pc \in {"done", "aborted", "assert_failed"}

\* number of steps left before the call returns, if no solve fails
StepsLeft ==
    LET iter_len == 2 * NV + 3
        at_loop  == (opt.n_iters - i) * iter_len + 1
    IN  CASE pc = "start"     -> at_loop + 2
          [] pc = "label"     -> at_loop + 1
          [] pc = "loop"      -> at_loop
          [] pc = "laplacian" -> at_loop - 1
          [] pc = "assemble"  -> at_loop - 2 - vid
          [] pc = "solve"     -> at_loop - 2 - NV
          [] pc = "update"    -> at_loop - 3 - NV - vid
          [] OTHER            -> 0

Assembled == pc \in {"solve", "update"}

NumFeature == Cardinality(Labelled(FEATURE))
NumCols == 3 * NV + NumFeature

\* number of feature vertices assembled before the k-th assembled vertex
FeatureRank(k) ==
    Cardinality({j \in 1..(k - 1) : label[hist.blocks[j].vid] = FEATURE})

\* the triplets of row r, in the order they were pushed
RowEntries(r) == SelectSeq(entries, LAMBDA e : e.row = r)

\* the vertices whose position the current (or the just completed) iteration
\* has written
UpdatedVerts ==
    IF pc = "update" THEN 0..(vid - 1)
    ELSE IF pc \in {"loop", "done"} /\ i > 0 THEN Verts
    ELSE {}

\* C5: at the end of assembly every column index lies in [0, 3|V| + F); the
\* rows of vertex v use the columns v, |V|+v, 2|V|+v (and its t column); the
\* feature map is empty when the assembly loop starts and ends holding exactly
\* the FEATURE vertices; their t columns are 3|V|, 3|V|+1, ... in assembly
\* order; the matrix has 3|V| + F columns.
C5_ColumnLayout ==
    /\ (pc = "assemble" /\ vid = 0) => feature_data = EmptyMap
    /\ pc = "assemble" =>
          DOMAIN feature_data = {v \in Labelled(FEATURE) : v < vid}
    /\ Assembled =>
          /\ \A k \in DOMAIN entries : entries[k].col \in 0..(NumCols - 1)
          /\ DOMAIN feature_data = Labelled(FEATURE)
          /\ Len(hist.blocks) = NV
          /\ \A k \in DOMAIN hist.blocks :
                LET b == hist.blocks[k]
                    v == b.vid
                    own == {v, NV + v, 2 * NV + v} \cup
                           (IF label[v] = FEATURE THEN {feature_data[v].col} ELSE {})
                IN  /\ \A n \in DOMAIN entries :
                          entries[n].row \in b.lo..(b.hi - 1) => entries[n].col \in own
                    /\ label[v] = FEATURE =>
                          feature_data[v].col = 3 * NV + FeatureRank(k)
          /\ {feature_data[v].col : v \in Labelled(FEATURE)}
                = (3 * NV)..(3 * NV + NumFeature - 1)
          /\ \A u, v \in Labelled(FEATURE) :
                u # v => feature_data[u].col # feature_data[v].col
    /\ pc = "update" => A.cols = NumCols

\* the system of a second iteration is assembled, with two feature vertices or more
C5_Witness ==
    /\ pc = "solve"
    /\ i >= 1
    /\ NumFeature >= 2
    /\ \E k \in DOMAIN entries : entries[k].col = NumCols - 1

\* C6: without reprojection a FEATURE vertex ends the iteration at
\* p_old + t * dir: p_old its position when the iteration started (the right
\* hand side of its rows), dir the direction the feature map holds for it, t
\* the solution at its t column.
C6_FeatureMovesAlongDir ==
    ~opt.reproject_on_target =>
        \A k \in DOMAIN hist.blocks :
            LET b == hist.blocks[k]
                v == b.vid
            IN  (v \in UpdatedVerts /\ label[v] = FEATURE) =>
                    LET t   == res[feature_data[v].col]
                        dir == feature_data[v].dir
                        old == hist.p_old[v]
                    IN  /\ pos[v] = <<old[1] + t * dir[1], old[2] + t * dir[2],
                                      old[3] + t * dir[3]>>
                        /\ <<rhs[b.lo + 1], rhs[b.lo + 2], rhs[b.lo + 3]>> = old
                        /\ feature_data[v].col >= 3 * NV

\* a FEATURE vertex has moved, and not to the point its x, y, z columns hold
C6_Witness ==
    /\ pc = "loop"
    /\ i >= 1
    /\ ~opt.reproject_on_target
    /\ \E v \in Labelled(FEATURE) :
          /\ pos[v] # hist.p_old[v]
          /\ pos[v] # <<res[v], res[NV + v], res[2 * NV + v]>>

\* the octrees as built from the target mesh and from the marked edges at
\* the input positions
SurfaceIndex ==
    [items |-> {[id |-> k - 1, pts |-> TargetPolys[k]] : k \in DOMAIN TargetPolys}]
FeatureIndex ==
    [items |-> {[id |-> e,
                 pts |-> <<hist.pos0[edge_vert_ids(e)[1]], hist.pos0[edge_vert_ids(e)[2]]>>] :
                    e \in {x \in EdgeIds : marked[x]}}]

\* C7: with reprojection a REGULAR or CORNER vertex is stored at the closest
\* point of the surface index to its solved x, y, z, a FEATURE vertex at the
\* closest point of the feature index to p_old + t * dir; both indices are
\* built once, before the first iteration, from the target mesh and from the
\* marked edges at their input positions, and never change afterwards.
\* Without reprojection the raw point is stored and no index is queried.
C7_Reprojection ==
    /\ (opt.reproject_on_target /\ pc # "start") =>
          /\ ref_srf = SurfaceIndex
          /\ ref_feat = FeatureIndex
          /\ hist.n_build = 1
          /\ hist.q_srf + hist.q_feat =
                hist.n_update * NV + (IF pc = "update" THEN vid ELSE 0)
    /\ ~opt.reproject_on_target =>
          /\ ref_srf = EmptyOctree
          /\ ref_feat = EmptyOctree
          /\ hist.n_build = 0
          /\ hist.q_srf = 0
          /\ hist.q_feat = 0
    /\ \A v \in UpdatedVerts :
          LET raw == IF label[v] = FEATURE
                     THEN vec_add(hist.p_old[v],
                                  vec_mul(feature_data[v].dir, res[feature_data[v].col]))
                     ELSE <<res[v], res[NV + v], res[2 * NV + v]>>
          IN  pos[v] = IF ~opt.reproject_on_target THEN raw
                       ELSE IF label[v] = FEATURE THEN closest_point(FeatureIndex, raw)
                       ELSE closest_point(SurfaceIndex, raw)

\* a second iteration has reprojected a FEATURE and a non-FEATURE vertex, on
\* a feature index that no longer matches the marked edges of the moved mesh
C7_Witness ==
    /\ pc = "loop"
    /\ i >= 2
    /\ opt.reproject_on_target
    /\ Labelled(FEATURE) # {}
    /\ Labelled(FEATURE) # Verts
    /\ ref_feat # add_marked_segments(EmptyOctree, pos, marked, 0)
    /\ hist.q_feat >= 2
    /\ hist.q_srf >= 2

\* C8: the row counter equals the number of weights and of right hand sides;
\* at the end of assembly it is 3|V| + the incident polygons of the REGULAR
\* vertices + 4 per FEATURE vertex + 3 per CORNER vertex; it never decreases;
\* every row index is below it; rows [0, 3|V|) are the Laplacian's; the
\* vertices' blocks of rows follow each other without gap or overlap.
C8_RowCounter ==
    /\ pc = "laplacian" => row = 0 /\ w = <<>> /\ rhs = <<>> /\ entries = <<>>
    /\ pc \in {"assemble", "solve", "update"} =>
          /\ row = Len(w)
          /\ row = Len(rhs)
          /\ Len(hist.blocks) = (IF pc = "assemble" THEN vid ELSE NV)
          /\ \A k \in DOMAIN hist.blocks :
                /\ hist.blocks[k].vid = k - 1
                /\ hist.blocks[k].lo = (IF k = 1 THEN 3 * NV ELSE hist.blocks[k - 1].hi)
                /\ hist.blocks[k].lo <= hist.blocks[k].hi
          /\ row = (IF hist.blocks = <<>> THEN 3 * NV
                    ELSE hist.blocks[Len(hist.blocks)].hi)
          /\ \A n \in DOMAIN entries :
                /\ entries[n].row \in 0..(row - 1)
                /\ (n <= Len(laplacian_matrix_entries)) <=> (entries[n].row < 3 * NV)
          /\ \A r \in 0..(3 * NV - 1) : RowEntries(r) # <<>>
    /\ Assembled =>
          row = 3 * NV + RegularPolyPairs + 4 * NumFeature
                + 3 * Cardinality(Labelled(CORNER))
    /\ pc = "update" => A.rows = row

\* a system with REGULAR, FEATURE and CORNER vertices is assembled
C8_Witness ==
    /\ pc = "solve"
    /\ RegularPolyPairs >= 2
    /\ Labelled(FEATURE) # {}
    /\ Labelled(CORNER) # {}

\* C9: every row carries the weight and right hand side of its block.
\* Laplacian rows: w_laplace, 0.  REGULAR vertex: one row per incident polygon,
\* w_regular, the normal on the x, y, z columns, normal . position.  CORNER
\* vertex: 3 rows, w_corner, 1 on one coordinate column, the coordinate.
\* FEATURE vertex: 3 rows, w_feature, 1 on the coordinate column and -dir on
\* the t column, the coordinate; and a 4th row, 1 on the t column, 0, weight 1.
C9_RowContents ==
    Assembled =>
        /\ \A r \in 0..(3 * NV - 1) : w[r + 1] = opt.w_laplace /\ rhs[r + 1] = 0
        /\ \A k \in DOMAIN hist.blocks :
              LET b == hist.blocks[k]
                  v == b.vid
                  p == hist.p_old[v]
                  col(c) == (c - 1) * NV + v
              IN  CASE label[v] = REGULAR ->
                        /\ b.hi - b.lo = Cardinality(IncidentPolys(v))
                        /\ \A j \in 1..(b.hi - b.lo) :
                              LET r == b.lo + j - 1
                                  n == poly_normal(adj_v2p(v)[j])
                              IN  /\ w[r + 1] = opt.w_regular
                                  /\ rhs[r + 1] = n[1] * p[1] + n[2] * p[2] + n[3] * p[3]
                                  /\ RowEntries(r) = <<Entry(r, col(1), n[1]),
                                                       Entry(r, col(2), n[2]),
                                                       Entry(r, col(3), n[3])>>
                    [] label[v] = CORNER ->
                        /\ b.hi - b.lo = 3
                        /\ \A c \in 1..3 :
                              LET r == b.lo + c - 1
                              IN  /\ w[r + 1] = opt.w_corner
                                  /\ rhs[r + 1] = p[c]
                                  /\ RowEntries(r) = <<Entry(r, col(c), 1)>>
                    [] label[v] = FEATURE ->
                        LET ct  == feature_data[v].col
                            dir == feature_data[v].dir
                        IN  /\ b.hi - b.lo = 4
                            /\ \A c \in 1..3 :
                                  LET r == b.lo + c - 1
                                  IN  /\ w[r + 1] = opt.w_feature
                                      /\ rhs[r + 1] = p[c]
                                      /\ RowEntries(r) = <<Entry(r, col(c), 1),
                                                           Entry(r, ct, -dir[c])>>
                            /\ w[b.lo + 4] = 1
                            /\ rhs[b.lo + 4] = 0
                            /\ RowEntries(b.lo + 3) = <<Entry(b.lo + 3, ct, 1)>>
                    [] OTHER -> FALSE

\* a system with the three kinds of vertices is assembled in a second
\* iteration, with a feature weight other than 1 and a feature direction
\* other than zero
C9_Witness ==
    /\ pc = "solve"
    /\ i >= 1
    /\ opt.w_feature # 1
    /\ RegularPolyPairs >= 2
    /\ Labelled(CORNER) # {}
    /\ \E v \in Labelled(FEATURE) : feature_data[v].dir # <<0, 0, 0>>
    /\ pos # hist.pos0

\* C10: no internal check fails: a vertex sent to the FEATURE branch has
\* exactly two marked incident edges and is not yet in the feature map, the
\* labels stay those of the classification, and neither switch reaches its
\* default branch.
C10_NoAssertionFails ==
    /\ pc # "assert_failed"
    /\ Classified => label = hist.label1
    /\ pc \in {"assemble", "update"} =>
          /\ vid \in Verts
          /\ label[vid] \in {REGULAR, FEATURE, CORNER}
    /\ (pc = "assemble" /\ label[vid] = FEATURE) =>
          /\ Len(marked_nbrs(adj_v2e(vid), pos, marked, vid)) = 2
          /\ vid \notin DOMAIN feature_data
    /\ (pc = "update" /\ label[vid] = FEATURE) => vid \in DOMAIN feature_data

\* two iterations have passed every check, on a mesh with a FEATURE vertex and
\* a vertex where three marked edges meet, all formerly labelled FEATURE
C10_Witness ==
    /\ pc = "done"
    /\ i >= 2
    /\ Labelled(FEATURE) # {}
    /\ \E v \in Verts : Cardinality(MarkedIncident(v)) >= 3
    /\ \A v \in Verts : hist.label0[v] = FEATURE

====
